---- MODULE Spec2Model ----
(***************************************************************************)
(* A model of reflopt, the reflection-driven program-option parser of      *)
(* _includes/code/reflection/reflexpr/reflopt.hpp (and its cpp3k twin).    *)
(*                                                                         *)
(* Build time: OptionsMap<OptionsStruct> folds the members of the options  *)
(* struct that specialise Option into prefix_map, a hana::map from flag    *)
(* strings to the metainfo of a data member.  Run time: parse walks argv   *)
(* two entries at a time, asks contains for the flag and lets set write    *)
(* the lexical_cast of the value into the member the flag maps to.         *)
(*                                                                         *)
(* C strings are TLA+ strings; the character at C index k of s is          *)
(* CharAt(s, k), and NUL past the end.  argv is a sequence whose element   *)
(* k + 1 is the C argv[k], so that argc = Len(argv).                       *)
(*                                                                         *)
(* The properties at the end are stated in the vocabulary of the           *)
(* specification (declared flags, the field a flag selects, the pairs of   *)
(* the argument list), which is read off the declaration and argv and not  *)
(* off the registry that the code builds.                                  *)
(***************************************************************************)
EXTENDS Integers, Sequences, FiniteSets, TLC

VARIABLES decl, build, prefix_map, argv, pc, i, options, result, log,
          call, instance, threads, cpp3k, cmp

vars == <<decl, build, prefix_map, argv, pc, i, options, result, log,
          call, instance, threads, cpp3k, cmp>>

(***************************************************************************)
(* Bounds of the model.                                                    *)
(***************************************************************************)
\* the longest list of tokens that follows the program name in argv
MaxArgs == 4
\* the most (flag, value) pairs of a well-formed command line over the two
\* flags of one option
MaxPairs == 3
\* the largest number of REFLOPT_OPTION uses and plain members of a struct
MaxDecl == 3

(***************************************************************************)
(* Program constants.                                                      *)
(***************************************************************************)
max_value_length == 128

\* INT_MAX of a 32-bit int, the MemberType of the integer options
IntMax == 2147483647

(***************************************************************************)
(* C strings.                                                              *)
(***************************************************************************)
NUL == ""

CharAt(s, k) == IF k < Len(s) THEN SubSeq(s, k + 1, k + 1) ELSE NUL

Min(a, b) == IF a < b THEN a ELSE b

\* strcmp(a, b) == 0: the characters agree at every index up to and including
\* the first NUL
strcmp_eq(a, b) == \A k \in 0..Min(Len(a), Len(b)) : CharAt(a, k) = CharAt(b, k)

\* strncmp over the length of the key: a string that starts with the key matches
strncmp_key_length(key, x) ==
  \A k \in 0..(Len(key) - 1) : CharAt(key, k) = CharAt(x, k)

\* Compare a hana string to a const char*
runtime_string_compare(key, x) == strcmp_eq(key, x)

\* strlen in the place of strnlen: the whole value is read
strlen_unbounded(s, maxlen) == Len(s)

\* strnlen(s, maxlen): the length of s, but at most maxlen
strnlen(s, maxlen) == Min(Len(s), maxlen)

RECURSIVE Repeat(_, _)
Repeat(c, n) ==
  IF n = 0 THEN ""
  ELSE LET half == Repeat(c, n \div 2) IN
       half \o half \o (IF n % 2 = 1 THEN c ELSE "")

(***************************************************************************)
(* Values of data members.  Every value has the same shape so that values  *)
(* of different member types can be compared.                              *)
(***************************************************************************)
StrVal(s)  == [kind |-> "string", s |-> s, n |-> 0, b |-> FALSE]
IntVal(n)  == [kind |-> "int", s |-> "", n |-> n, b |-> FALSE]
BoolVal(b) == [kind |-> "bool", s |-> "", n |-> 0, b |-> b]
\* an int or bool member that no constructor and no assignment has written
Indeterminate == [kind |-> "indeterminate", s |-> "", n |-> 0, b |-> FALSE]
\* the value of a reflopt_<id>_tag member: Option<...> has no state
TagVal == [kind |-> "tag", s |-> "", n |-> 0, b |-> FALSE]

(***************************************************************************)
(* boost::lexical_cast<MemberType>(chars, count): the conversion of the    *)
(* first count characters of chars.  [ok |-> FALSE] is bad_lexical_cast.   *)
(***************************************************************************)
Digits == "0123456789"

IsDigit(c) == \E d \in 1..10 : SubSeq(Digits, d, d) = c

DigitVal(c) == (CHOOSE d \in 1..10 : SubSeq(Digits, d, d) = c) - 1

AllDigits(s, from) == \A k \in from..Len(s) : IsDigit(SubSeq(s, k, k))

\* the index of the first character of s[from..Len(s)] that is no zero, or
\* Len(s) when all but the last are zeros
FirstNonZero(s, from) ==
  LET nz == { k \in from..Len(s) : SubSeq(s, k, k) # "0" } \cup {Len(s)}
  IN  CHOOSE k \in nz : \A m \in nz : k <= m

StripZeros(s, from) == SubSeq(s, FirstNonZero(s, from), Len(s))

\* the number the digits of d denote, on top of acc, or -1 above IntMax
RECURSIVE Accumulate(_, _, _)
Accumulate(d, from, acc) ==
  IF from > Len(d) THEN acc
  ELSE LET v == DigitVal(SubSeq(d, from, from)) IN
       IF acc > (IntMax - v) \div 10 THEN -1
       ELSE Accumulate(d, from + 1, acc * 10 + v)

\* the decimal number s[from..Len(s)] denotes, or -1 when a character is no
\* digit or the number is above IntMax; leading zeros do not overflow
lcast_ret_unsigned(s, from) ==
  IF ~AllDigits(s, from) THEN -1
  ELSE LET d == StripZeros(s, from) IN
       IF Len(d) > 10 THEN -1 ELSE Accumulate(d, 1, 0)

Failed == [ok |-> FALSE, val |-> Indeterminate]

lexical_cast_int(s) ==
  IF Len(s) = 0 THEN Failed
  ELSE LET sign == SubSeq(s, 1, 1)
           signed == sign = "-" \/ sign = "+"
           from == IF signed THEN 2 ELSE 1
           u == lcast_ret_unsigned(s, from)
       IN  IF from > Len(s) THEN Failed
           ELSE IF u >= 0
                THEN [ok |-> TRUE, val |-> IntVal(IF sign = "-" THEN 0 - u ELSE u)]
           ELSE IF sign = "-" /\ AllDigits(s, from)
                   /\ StripZeros(s, from) = "2147483648"
                THEN [ok |-> TRUE, val |-> IntVal((0 - IntMax) - 1)]
           ELSE Failed

AllZeros(s, from, to) == \A k \in from..to : SubSeq(s, k, k) = "0"

\* bool: an optional sign (minus only before a zero), zeros, then 0 or 1
lexical_cast_bool(s) ==
  IF Len(s) = 0 THEN Failed
  ELSE LET last == SubSeq(s, Len(s), Len(s))
           output == last = "1"
           first == SubSeq(s, 1, 1)
           start == IF Len(s) > 1 /\ (first = "+" \/ (first = "-" /\ ~output))
                    THEN 2 ELSE 1
       IN  IF ~output /\ last # "0" THEN Failed
           ELSE IF AllZeros(s, start, Len(s) - 1) THEN [ok |-> TRUE, val |-> BoolVal(output)]
           ELSE Failed

lexical_cast(MemberType, chars, count) ==
  LET s == SubSeq(chars, 1, count) IN
  CASE MemberType = "string" -> [ok |-> TRUE, val |-> StrVal(s)]
    [] MemberType = "int"    -> lexical_cast_int(s)
    [] MemberType = "bool"   -> lexical_cast_bool(s)
    [] OTHER                 -> Failed

(***************************************************************************)
(* The declaration of an options struct: a sequence of REFLOPT_OPTION uses *)
(* and of plain data members.  REFLOPT_OPTION(Type, Identifier, Flag,      *)
(* ShortFlag) declares two members, the tag reflopt_<Identifier>_tag of    *)
(* type Option<Identifier, Flag, ShortFlag, Help> and the data member      *)
(* Type Identifier.  The help text is never read and is left out.          *)
(***************************************************************************)
Member(name, type, identifier, flag, short_flag) ==
  [name |-> name, type |-> type, identifier |-> identifier,
   flag |-> flag, short_flag |-> short_flag]

PlainMember(Type, Identifier) == <<Member(Identifier, Type, "", "", "")>>

REFLOPT_OPTION_HELPER(Type, Identifier, Flag, ShortFlag) ==
  << Member("reflopt_" \o Identifier \o "_tag", "Option", Identifier, Flag, ShortFlag),
     Member(Identifier, Type, "", "", "") >>

\* REFLOPT_OPTION with three arguments: the short flag is ""
REFLOPT_OPTION_3(Type, Identifier, Flag) ==
  REFLOPT_OPTION_HELPER(Type, Identifier, Flag, "")

REFLOPT_OPTION_4(Type, Identifier, Flag, ShortFlag) ==
  REFLOPT_OPTION_HELPER(Type, Identifier, Flag, ShortFlag)

\* the lines a struct of the model is written from
OptFilename   == REFLOPT_OPTION_3("string", "filename", "--filename")
OptIterations == REFLOPT_OPTION_4("int", "iterations", "--iterations", "-i")
OptHelp       == REFLOPT_OPTION_4("bool", "help", "--help", "-h")
OptHeight     == REFLOPT_OPTION_4("int", "height", "--height", "-h")
PlainVerbose  == PlainMember("int", "verbosity")
\* an option whose identifier is the beginning of the name of another member
OptFile       == REFLOPT_OPTION_3("string", "file", "--file")

FieldPool == {OptFilename, OptIterations, OptHelp, OptHeight, PlainVerbose, OptFile}

RECURSIVE Flatten(_)
Flatten(lines) == IF lines = <<>> THEN <<>> ELSE Head(lines) \o Flatten(Tail(lines))

\* the structs of at most MaxDecl lines, no line used twice (a member name is
\* declared once in a struct); a struct is the sequence of its data members
Structs ==
  { Flatten(lines) : lines \in
      { l \in UNION { [1..n -> FieldPool] : n \in 0..MaxDecl } :
          \A a, b \in DOMAIN l : a # b => l[a] # l[b] } }

\* struct ProgramOptions of the post: filename, iterations, help
ProgramOptions == OptFilename \o OptIterations \o OptHelp

\* a struct in which the name of one option begins the name of another
FileOptions == OptFile \o OptFilename \o PlainVerbose

(***************************************************************************)
(* get_metainfo_for: the data member an option identifier names.           *)
(***************************************************************************)
\* (Id[J] == name[J]) && ... over J = from .. Len(Id) - 1, left to right
RECURSIVE equals_member_from(_, _, _)
equals_member_from(Id, name, J) ==
  IF J >= Len(Id) THEN TRUE
  ELSE IF CharAt(Id, J) # CharAt(name, J) THEN FALSE
  ELSE equals_member_from(Id, name, J + 1)

\* member I of the struct (from 0) against the identifier
equals_member(members, Id, I) == equals_member_from(Id, members[I + 1].name, 0)

\* ((equals_member<Id, Index>(...) ? Index : 0) + ...) over Index = from .. N - 1
RECURSIVE index_fold(_, _, _)
index_fold(members, Id, from) ==
  IF from >= Len(members) THEN 0
  ELSE (IF equals_member(members, Id, from) THEN from ELSE 0)
       + index_fold(members, Id, from + 1)

\* the index of the member whose metainfo get_metainfo_for returns
get_metainfo_for(members, Id) == index_fold(members, Id, 0)

(***************************************************************************)
(* OptionsMap: filtered, prefix_map and the static assertions.             *)
(***************************************************************************)
\* metap::is_specialization<T, Option>
is_specialization_Option(field) == field.type = "Option"

filtered(members) == SelectSeq(members, is_specialization_Option)

keys(map) == [k \in 1..Len(map) |-> map[k].key]

\* hana::insert on a map: a key the map already holds is left as it is
hana_insert(map, key, info) ==
  IF \E k \in 1..Len(map) : map[k].key = key THEN map
  ELSE Append(map, [key |-> key, info |-> info])

\* collect_flags without the test of hana::is_empty(T::short_flag)
collect_flags_any_short(members, x, field) ==
  LET info == get_metainfo_for(members, field.identifier)
      result_ == hana_insert(x, field.flag, info)
  IN  hana_insert(result_, field.short_flag, info)

collect_flags(members, x, field) ==
  LET info == get_metainfo_for(members, field.identifier)
      result_ == hana_insert(x, field.flag, info)
  IN  IF field.short_flag # "" THEN hana_insert(result_, field.short_flag, info)
      ELSE result_

RECURSIVE fold_collect(_, _, _)
fold_collect(members, fields, x) ==
  IF fields = <<>> THEN x
  ELSE fold_collect(members, Tail(fields), collect_flags(members, x, Head(fields)))

make_prefix_map(members) == fold_collect(members, filtered(members), <<>>)

\* the assertion without its negation: hana::length(xs) == hana::size_c<0>
static_assert_length_is_zero(xs) == Len(xs) = 0

\* !hana::length(xs) == hana::size_c<0>: the negation binds first, and the
\* boolean it gives is compared with 0
static_assert_not_length_is_zero(xs) ==
  LET not_length == IF Len(xs) = 0 THEN 1 ELSE 0 IN not_length = 0

\* set instantiates lexical_cast<MemberType> for every key: the member a key
\* maps to has to exist and to be a type lexical_cast can produce
Instantiable(members, map) ==
  \A k \in 1..Len(map) :
     /\ map[k].info < Len(members)
     /\ members[map[k].info + 1].type \in {"string", "int", "bool"}

\* what the compiler makes of OptionsMap<OptionsStruct>
Compile(members) ==
  IF ~static_assert_not_length_is_zero(filtered(members)) THEN "static_assert"
  ELSE IF ~static_assert_not_length_is_zero(keys(make_prefix_map(members)))
       THEN "static_assert"
  ELSE IF ~Instantiable(members, make_prefix_map(members)) THEN "ill_formed"
  ELSE "ok"

(***************************************************************************)
(* OptionsMap::contains and OptionsMap::set.                               *)
(***************************************************************************)
\* hana::fold(keys, false, [](bool x, key) { return x || compare(key, prefix); })
RECURSIVE contains_fold(_, _, _)
contains_fold(ks, x, prefix) ==
  IF ks = <<>> THEN x
  ELSE contains_fold(Tail(ks), x \/ runtime_string_compare(Head(ks), prefix), prefix)

\* the fold started from true
contains_from_true(map, prefix) == contains_fold(keys(map), TRUE, prefix)

contains(map, prefix) == contains_fold(keys(map), FALSE, prefix)

\* the body of the lambda of set for the key at position k of the map: the
\* member the key maps to takes the lexical_cast of the value, of which at
\* most max_value_length characters are read
set_key(members, map, opts, k, value) ==
  LET info == map[k].info
      MemberType == members[info + 1].type
      cast == lexical_cast(MemberType, value, strnlen(value, max_value_length))
  IN  IF cast.ok
      THEN [threw |-> FALSE, options |-> [opts EXCEPT ![info + 1] = cast.val],
            target_type |-> MemberType]
      ELSE [threw |-> TRUE, options |-> opts, target_type |-> MemberType]

\* the lambda without its if (runtime_string_compare(key, prefix)): the value
\* is written through every key of the map
RECURSIVE set_from_every_key(_, _, _, _, _, _)
set_from_every_key(members, map, opts, prefix, value, k) ==
  IF k > Len(map) THEN [threw |-> FALSE, options |-> opts, target_type |-> ""]
  ELSE LET r == set_key(members, map, opts, k, value) IN
       IF r.threw THEN r
       ELSE set_from_every_key(members, map, r.options, prefix, value, k + 1)

\* hana::for_each over the keys from position k on; bad_lexical_cast leaves it
RECURSIVE set_from(_, _, _, _, _, _)
set_from(members, map, opts, prefix, value, k) ==
  IF k > Len(map) THEN [threw |-> FALSE, options |-> opts, target_type |-> ""]
  ELSE IF runtime_string_compare(map[k].key, prefix)
       THEN LET r == set_key(members, map, opts, k, value) IN
            IF r.threw THEN r
            ELSE set_from(members, map, r.options, prefix, value, k + 1)
  ELSE set_from(members, map, opts, prefix, value, k + 1)

set(members, map, opts, prefix, value) == set_from(members, map, opts, prefix, value, 1)

(***************************************************************************)
(* parse.                                                                  *)
(***************************************************************************)
\* OptionsStruct options; a std::string member is constructed empty, an int
\* or bool member is left unwritten
DefaultInit(members) ==
  [k \in 1..Len(members) |->
     CASE members[k].type = "string" -> StrVal("")
       [] members[k].type = "Option" -> TagVal
       [] OTHER -> Indeterminate]

argc == Len(argv)

\* the C expression argv[k], for k < argc
Argv(k) == argv[k + 1]

NoResult  == [kind |-> "none", options |-> <<>>]
\* return options in the place of return nullopt
PartialInstance == [kind |-> "value", options |-> options]

Nullopt   == [kind |-> "nullopt", options |-> <<>>]
\* the source of every conversion is the character range handed to
\* lexical_cast(const char*, std::size_t)
CharRange == "char_range"

\* boost::bad_lexical_cast leaves parse: of the failed conversion it holds the
\* type_info of the source and of the target type
BadLexicalCast(MemberType) ==
  [kind |-> "bad_lexical_cast", options |-> <<>>, source_type |-> CharRange,
   target_type |-> MemberType]
\* the process died reading through argv[argc]
Crash     == [kind |-> "crash", options |-> <<>>]
Value(opts) == [kind |-> "value", options |-> opts]

\* the cpp3k build of the library, not looked at
NoCpp3k == [build |-> "source", prefix_map |-> <<>>, pc |-> "idle", i |-> 0,
            options |-> <<>>, result |-> NoResult]

\* reflcompare::equal, not called
NoCompare == [T |-> [kind |-> "record", members |-> <<>>],
              a |-> [s |-> "", ms |-> <<>>], b |-> [s |-> "", ms |-> <<>>],
              build |-> "source", pc |-> "idle", ret |-> FALSE]

\* the last direct call of a static member of OptionsMap made by the caller
\* (none yet), and what it returned
NoCall == [op |-> "none", prefix |-> "", value |-> "", ret |-> FALSE]

(***************************************************************************)
(* The inputs of the model.                                                *)
(***************************************************************************)
\* a value of more than max_value_length characters: zeros and then a letter
LongValue == Repeat("0", max_value_length) \o "x"

\* a value of more than max_value_length characters whose first
\* max_value_length characters are no number: a letter and then zeros
LongWord == "x" \o Repeat("0", max_value_length)

Tokens == {"--filename", "--file", "--iterations", "-i", "-h", "1", "x", LongValue}

ProgramName == "prog"

\* token lists of any shape: every token may stand where a flag or a value is read
TokenLists == UNION { [1..n -> Tokens] : n \in 0..MaxArgs }

\* longer command lines made of pairs only: the two flags of the iterations
\* option, each with a number
AliasPairs == { <<f, v>> : f \in {"--iterations", "-i"}, v \in {"0", "1"} }

PairLists == { Flatten(ps) : ps \in UNION { [1..n -> AliasPairs] : n \in 0..MaxPairs } }

\* command lines with a value of more than max_value_length characters,
\* alone, before or after a pair
LongLists ==
  { <<f, v>> \o post :
      f \in {"--filename", "--file", "-i", "-h"}, v \in {LongValue, LongWord},
      post \in {<<>>, <<"x", "1">>, <<"-i", "1">>} }
  \cup { <<"-i", "1", f, v>> : f \in {"--filename", "-i"}, v \in {LongValue, LongWord} }
  \cup { <<f, LongValue, g, LongWord>> : f, g \in {"--filename", "-i"} }

\* command lines of three pairs of which the second and the third name no
\* option of a struct without help
FaultLists ==
  { <<f, v, "-h", "1", "x", "1">> : f \in {"--file", "--filename", "-i"}, v \in {"1", "x"} }

\* argv: empty (argc = 0), or the program name and the tokens after it
ArgVectors ==
  {<<>>} \cup { <<ProgramName>> \o args : args \in TokenLists \cup PairLists \cup LongLists \cup FaultLists }

\* the argument vectors parse is run on for every struct: no token, one pair
\* and two pairs of a flag and a value
BasicFlags == {"--filename", "--file", "-i", "-h"}

BasicArgVectors ==
  {<<ProgramName>>}
    \cup { <<ProgramName, f, v>> : f \in BasicFlags, v \in {"1", "x"} }
    \cup { <<ProgramName, f, "1", g, "x">> : f, g \in BasicFlags }

\* the structs that parse is run on with every argument vector
ParsedStructs ==
  { ProgramOptions,
    OptFilename \o OptIterations,
    OptHelp \o OptHeight,
    OptHeight \o OptHelp,
    PlainVerbose \o OptIterations \o OptFilename,
    FileOptions }

Init ==
  /\ decl \in Structs
  /\ argv \in IF decl \in ParsedStructs THEN ArgVectors ELSE BasicArgVectors
  /\ build = "source"
  /\ prefix_map = <<>>
  /\ pc = "idle"
  /\ i = 0
  /\ options = <<>>
  /\ result = NoResult
  /\ log = <<>>
  /\ call = NoCall
  /\ instance = <<>>
  /\ threads = <<>>
  /\ cpp3k = NoCpp3k
  /\ cmp = NoCompare

\* the compiler instantiates OptionsMap<OptionsStruct>
Build ==
  /\ build = "source"
  /\ build' = Compile(decl)
  /\ prefix_map' = IF Compile(decl) = "ok" THEN make_prefix_map(decl) ELSE <<>>
  /\ UNCHANGED <<decl, argv, pc, i, options, result, log, call, instance, threads, cpp3k, cmp>>

\* int i = 0: the program name is taken for the first flag
ParseBeginAtZero ==
  /\ build = "ok"
  /\ pc = "idle"
  /\ options' = DefaultInit(decl)
  /\ i' = 0
  /\ pc' = "loop"
  /\ UNCHANGED <<decl, build, prefix_map, argv, result, log, call, instance, threads, cpp3k, cmp>>

\* OptionsStruct options; int i = 1
ParseBegin ==
  /\ build = "ok"
  /\ pc = "idle"
  /\ options' = DefaultInit(decl)
  /\ i' = 1
  /\ pc' = "loop"
  /\ UNCHANGED <<decl, build, prefix_map, argv, result, log, call, instance, threads, cpp3k, cmp>>

\* continue in the place of return nullopt: the pair is skipped
LoopUnknownContinue ==
  /\ pc = "loop"
  /\ i < argc
  /\ ~contains(prefix_map, Argv(i))
  /\ i' = i + 2
  /\ log' = Append(log, [op |-> "contains", flag |-> i, value |-> -1, found |-> FALSE])
  /\ UNCHANGED <<decl, build, prefix_map, argv, pc, options, result, call, instance, threads, cpp3k, cmp>>

\* contains(argv[i]) is false: return nullopt
LoopUnknown ==
  /\ pc = "loop"
  /\ i < argc
  /\ ~contains(prefix_map, Argv(i))
  /\ result' = Nullopt
  /\ pc' = "done"
  /\ log' = Append(log, [op |-> "contains", flag |-> i, value |-> -1, found |-> FALSE])
  /\ UNCHANGED <<decl, build, prefix_map, argv, i, options, call, instance, threads, cpp3k, cmp>>

\* i += 1 in the place of i += 2: the value of a pair is the next flag
SetStepByOne(v) ==
  LET r == set(decl, prefix_map, options, Argv(i), v) IN
  /\ log' = log \o << [op |-> "contains", flag |-> i, value |-> -1,
                       found |-> contains(prefix_map, Argv(i))],
                      [op |-> "set", flag |-> i, value |-> i + 1,
                       found |-> contains(prefix_map, Argv(i))] >>
  /\ IF r.threw
     THEN /\ result' = BadLexicalCast(r.target_type)
          /\ pc' = "done"
          /\ UNCHANGED <<i, options>>
     ELSE /\ options' = r.options
          /\ i' = i + 1
          /\ UNCHANGED <<pc, result>>
  /\ UNCHANGED <<decl, build, prefix_map, argv, call, instance, threads, cpp3k, cmp>>

\* what follows contains(argv[i]) being true, the value read being v
SetStep(v) ==
  LET r == set(decl, prefix_map, options, Argv(i), v) IN
  /\ log' = log \o << [op |-> "contains", flag |-> i, value |-> -1,
                       found |-> contains(prefix_map, Argv(i))],
                      [op |-> "set", flag |-> i, value |-> i + 1,
                       found |-> contains(prefix_map, Argv(i))] >>
  /\ IF r.threw
     THEN /\ result' = BadLexicalCast(r.target_type)
          /\ pc' = "done"
          /\ UNCHANGED <<i, options>>
     ELSE /\ options' = r.options
          /\ i' = i + 2
          /\ UNCHANGED <<pc, result>>
  /\ UNCHANGED <<decl, build, prefix_map, argv, call, instance, threads, cpp3k, cmp>>

\* set called without asking contains first
LoopSetUnchecked ==
  /\ pc = "loop"
  /\ i < argc
  /\ i + 1 < argc
  /\ SetStep(Argv(i + 1))

\* contains(argv[i]) is true and argv[i + 1] is an entry of argv
LoopSet ==
  /\ pc = "loop"
  /\ i < argc
  /\ contains(prefix_map, Argv(i))
  /\ i + 1 < argc
  /\ SetStep(Argv(i + 1))

\* contains(argv[i]) is true and i + 1 = argc: set is handed argv[argc], the
\* null pointer of main's argv or what lies behind a shorter array.  strnlen
\* through it ends the process, or reads whatever string is found there
LoopSetPastEnd ==
  /\ pc = "loop"
  /\ i < argc
  /\ contains(prefix_map, Argv(i))
  /\ i + 1 >= argc
  /\ \/ /\ result' = Crash
        /\ pc' = "done"
        /\ log' = log \o << [op |-> "contains", flag |-> i, value |-> -1,
                       found |-> contains(prefix_map, Argv(i))],
                            [op |-> "set", flag |-> i, value |-> i + 1,
                       found |-> contains(prefix_map, Argv(i))] >>
        /\ UNCHANGED <<decl, build, prefix_map, argv, i, options, call, instance, threads, cpp3k, cmp>>
     \/ \E garbage \in Tokens : SetStep(garbage)

\* the loop is over: return options
ParseReturn ==
  /\ pc = "loop"
  /\ i >= argc
  /\ result' = Value(options)
  /\ pc' = "done"
  /\ UNCHANGED <<decl, build, prefix_map, argv, i, options, log, call, instance, threads, cpp3k, cmp>>

Next == Build \/ ParseBegin \/ LoopUnknown \/ LoopSet \/ LoopSetPastEnd \/ ParseReturn

Spec == Init /\ [][Next]_vars

\* the runs whose end is checked: ProgramOptions and every list of a flag, a
\* number and a word
LiveTokens == {"-i", "1", "x"}

LiveArgVectors ==
  {<<>>} \cup { <<ProgramName>> \o args :
                 args \in UNION { [1..n -> LiveTokens] : n \in 0..MaxArgs } }

InitLive ==
  /\ decl = ProgramOptions
  /\ argv \in LiveArgVectors
  /\ build = "source"
  /\ prefix_map = <<>>
  /\ pc = "idle"
  /\ i = 0
  /\ options = <<>>
  /\ result = NoResult
  /\ log = <<>>
  /\ call = NoCall
  /\ instance = <<>>
  /\ threads = <<>>
  /\ cpp3k = NoCpp3k
  /\ cmp = NoCompare

\* the steps of a call of parse that has begun
ParseStep == LoopUnknown \/ LoopSet \/ LoopSetPastEnd \/ ParseReturn

\* a call that has begun runs on: its next step is not put off for ever.
\* (Whether a struct is compiled and whether parse is called is up to the
\* programmer.)
SpecLive == InitLive /\ [][Next]_vars /\ WF_vars(ParseStep)

(***************************************************************************)
(* The static members of OptionsMap called by hand.  contains and set are  *)
(* public: a caller may look a string up, or write a value into an         *)
(* instance of its own, before or after it calls parse.                    *)
(***************************************************************************)
\* strings to look up: keys, proper prefixes of keys and keys with a tail
ProbeStrings ==
  { "", "-", "--file", "--filename", "--filenames", "-i", "-ix",
    "--iterations", "-h", "--help", "--height", "x" }

\* flags and values handed to set by the caller
CallFlags == { "--filename", "--iterations", "-i", "-h", "--height", "--file" }

CallValues == { "1", "x" }

\* argument vectors of the parse calls made between the direct calls
CallArgVectors ==
  { <<ProgramName>>, <<ProgramName, "-i">> }
    \cup { <<ProgramName, f, v>> : f \in {"-i", "--file", "x"}, v \in {"1", "x"} }

\* the caller holds a default-initialised instance of the struct
InitCalls ==
  /\ decl \in ParsedStructs
  /\ argv \in CallArgVectors
  /\ build = "source"
  /\ prefix_map = <<>>
  /\ pc = "idle"
  /\ i = 0
  /\ options = <<>>
  /\ result = NoResult
  /\ log = <<>>
  /\ call = NoCall
  /\ instance = DefaultInit(decl)
  /\ threads = <<>>
  /\ cpp3k = NoCpp3k
  /\ cmp = NoCompare

\* OptionsMap<OptionsStruct>::contains(prefix)
CallContains(prefix) ==
  /\ build = "ok"
  /\ pc \in {"idle", "done"}
  /\ call' = [op |-> "contains", prefix |-> prefix, value |-> "",
              ret |-> contains(prefix_map, prefix)]
  /\ UNCHANGED <<decl, build, prefix_map, argv, pc, i, options, result, log, instance, threads, cpp3k, cmp>>

\* set with a flag that is entered into the map when it is not a key
CallSetRegistering(prefix, value) ==
  LET r == set(decl, prefix_map, instance, prefix, value) IN
  /\ build = "ok"
  /\ pc \in {"idle", "done"}
  /\ instance' = r.options
  /\ prefix_map' = hana_insert(prefix_map, prefix, 0)
  /\ call' = [op |-> "set", prefix |-> prefix, value |-> value, ret |-> r.threw]
  /\ UNCHANGED <<decl, build, argv, pc, i, options, result, log, threads, cpp3k, cmp>>

\* OptionsMap<OptionsStruct>::set(instance, prefix, value); ret tells that
\* bad_lexical_cast left the call
CallSet(prefix, value) ==
  LET r == set(decl, prefix_map, instance, prefix, value) IN
  /\ build = "ok"
  /\ pc \in {"idle", "done"}
  /\ instance' = r.options
  /\ call' = [op |-> "set", prefix |-> prefix, value |-> value, ret |-> r.threw]
  /\ UNCHANGED <<decl, build, prefix_map, argv, pc, i, options, result, log, threads, cpp3k, cmp>>

NextCalls ==
  \/ Next
  \/ \E prefix \in ProbeStrings : CallContains(prefix)
  \/ \E prefix \in CallFlags : \E value \in CallValues : CallSet(prefix, value)

SpecCalls == InitCalls /\ [][NextCalls]_vars

(***************************************************************************)
(* parse called from several threads at once.  Every call has its own      *)
(* argc, argv, loop index and local options; prefix_map is a static        *)
(* constexpr member that all of them read.  threads[t] is the frame of     *)
(* the call of thread t.                                                   *)
(***************************************************************************)
NumParses == 2

\* the argument vectors of the calls: none, a flag without value, an unknown
\* flag, a value that does not coerce, one pair and two pairs that parse,
\* a pair with the flag of the file option
ParArgVectors ==
  { <<ProgramName>>, <<ProgramName, "-i">>, <<ProgramName, "x", "1">>,
    <<ProgramName, "-i", "x">>, <<ProgramName, "-i", "1">>,
    <<ProgramName, "--filename", "x", "-i", "1">>, <<ProgramName, "--file", "1">> }

InitPar ==
  /\ decl \in ParsedStructs
  /\ argv = <<ProgramName>>
  /\ build = "source"
  /\ prefix_map = <<>>
  /\ pc = "idle"
  /\ i = 0
  /\ options = <<>>
  /\ result = NoResult
  /\ log = <<>>
  /\ call = NoCall
  /\ instance = <<>>
  /\ cpp3k = NoCpp3k
  /\ cmp = NoCompare
  /\ threads \in [1..NumParses -> { [argv |-> a, pc |-> "idle", i |-> 0, options |-> <<>>,
                                      result |-> NoResult] : a \in ParArgVectors }]

\* what the frames share with the single call of Spec is left as it is
ParFrame == UNCHANGED <<decl, build, prefix_map, argv, pc, i, options, result, log,
                        call, instance, cpp3k, cmp>>

\* OptionsStruct options; int i = 1
ParBegin(t) ==
  /\ build = "ok"
  /\ threads[t].pc = "idle"
  /\ threads' = [threads EXCEPT ![t].options = DefaultInit(decl), ![t].i = 1,
                                 ![t].pc = "loop"]
  /\ ParFrame

\* contains(argv[i]) is false: return nullopt
ParUnknown(t) ==
  LET th == threads[t] IN
  /\ th.pc = "loop"
  /\ th.i < Len(th.argv)
  /\ ~contains(prefix_map, th.argv[th.i + 1])
  /\ threads' = [threads EXCEPT ![t].result = Nullopt, ![t].pc = "done"]
  /\ ParFrame

\* the frame of a call after set was handed the value v
AfterSet(th, v) ==
  LET r == set(decl, prefix_map, th.options, th.argv[th.i + 1], v) IN
  IF r.threw
  THEN [th EXCEPT !.result = BadLexicalCast(r.target_type), !.pc = "done"]
  ELSE [th EXCEPT !.options = r.options, !.i = th.i + 2]

\* options declared static: the instance written by one call is the instance
\* of every call that is in its loop
ParSetShared(t) ==
  LET th == threads[t]
      after == AfterSet(th, th.argv[th.i + 2]) IN
  /\ th.pc = "loop"
  /\ th.i < Len(th.argv)
  /\ contains(prefix_map, th.argv[th.i + 1])
  /\ th.i + 1 < Len(th.argv)
  /\ threads' = [u \in DOMAIN threads |->
                   IF u = t THEN after
                   ELSE IF threads[u].pc = "loop"
                        THEN [threads[u] EXCEPT !.options = after.options]
                        ELSE threads[u]]
  /\ ParFrame

\* contains(argv[i]) is true and argv[i + 1] is an entry of argv
ParSet(t) ==
  LET th == threads[t] IN
  /\ th.pc = "loop"
  /\ th.i < Len(th.argv)
  /\ contains(prefix_map, th.argv[th.i + 1])
  /\ th.i + 1 < Len(th.argv)
  /\ threads' = [threads EXCEPT ![t] = AfterSet(th, th.argv[th.i + 2])]
  /\ ParFrame

\* contains(argv[i]) is true and i + 1 = argc: the read through argv[argc]
ParSetPastEnd(t) ==
  LET th == threads[t] IN
  /\ th.pc = "loop"
  /\ th.i < Len(th.argv)
  /\ contains(prefix_map, th.argv[th.i + 1])
  /\ th.i + 1 >= Len(th.argv)
  /\ \/ threads' = [threads EXCEPT ![t].result = Crash, ![t].pc = "done"]
     \/ \E garbage \in Tokens : threads' = [threads EXCEPT ![t] = AfterSet(th, garbage)]
  /\ ParFrame

\* the loop is over: return options
ParReturn(t) ==
  LET th == threads[t] IN
  /\ th.pc = "loop"
  /\ th.i >= Len(th.argv)
  /\ threads' = [threads EXCEPT ![t].result = Value(th.options), ![t].pc = "done"]
  /\ ParFrame

NextPar ==
  \/ Build
  \/ \E t \in 1..NumParses :
       ParBegin(t) \/ ParUnknown(t) \/ ParSet(t) \/ ParSetPastEnd(t) \/ ParReturn(t)

SpecPar == InitPar /\ [][NextPar]_vars

(***************************************************************************)
(* The cpp3k implementation of the same library (unnamed/part_001), built  *)
(* for the same struct and run on the same argv next to the reflexpr one.  *)
(* cpp3k holds its build, its prefix_map and the frame of its parse.       *)
(***************************************************************************)
\* (Id[J] == $T.member_variables()[I].name()[J]) && ... over J < length(Id)
cpp3k_equals_member(members, Id, I) ==
  \A J \in 0..(Len(Id) - 1) : CharAt(Id, J) = CharAt(members[I + 1].name, J)

\* get_matching_index<T>::apply: ((equals_member<T, Id, I>(...) ? I : 0) + ...)
RECURSIVE cpp3k_get_matching_index(_, _, _)
cpp3k_get_matching_index(members, Id, I) ==
  IF I >= Len(members) THEN 0
  ELSE (IF cpp3k_equals_member(members, Id, I) THEN I ELSE 0)
       + cpp3k_get_matching_index(members, Id, I + 1)

cpp3k_get_metainfo_for(members, Id) == cpp3k_get_matching_index(members, Id, 0)

cpp3k_collect_flags(members, x, field) ==
  LET result_ == hana_insert(x, field.flag,
                             cpp3k_get_metainfo_for(members, field.identifier))
  IN  IF field.short_flag # ""
      THEN hana_insert(result_, field.short_flag,
                       cpp3k_get_metainfo_for(members, field.identifier))
      ELSE result_

cpp3k_filtered(members) == SelectSeq(members, is_specialization_Option)

\* hana::fold(filtered, hana::make_map(), collect_flags)
RECURSIVE cpp3k_fold(_, _, _)
cpp3k_fold(members, fields, x) ==
  IF fields = <<>> THEN x
  ELSE cpp3k_fold(members, Tail(fields), cpp3k_collect_flags(members, x, Head(fields)))

cpp3k_prefix_map(members) == cpp3k_fold(members, cpp3k_filtered(members), <<>>)

\* the two static assertions, and lexical_cast<MemberType> for every key
cpp3k_Compile(members) ==
  IF ~static_assert_not_length_is_zero(cpp3k_filtered(members)) THEN "static_assert"
  ELSE IF ~static_assert_not_length_is_zero(keys(cpp3k_prefix_map(members)))
       THEN "static_assert"
  ELSE IF ~Instantiable(members, cpp3k_prefix_map(members)) THEN "ill_formed"
  ELSE "ok"

\* hana::fold(keys, false, x || runtime_string_compare(key, prefix))
RECURSIVE cpp3k_contains_fold(_, _, _)
cpp3k_contains_fold(ks, x, prefix) ==
  IF ks = <<>> THEN x
  ELSE cpp3k_contains_fold(Tail(ks), x \/ strcmp_eq(Head(ks), prefix), prefix)

cpp3k_contains(map, prefix) == cpp3k_contains_fold(keys(map), FALSE, prefix)

\* hana::for_each over the keys from position k on: for the key that equals
\* the prefix, options.*member_pointer = lexical_cast<MemberType>(value, strnlen)
RECURSIVE cpp3k_set_from(_, _, _, _, _, _)
cpp3k_set_from(members, map, opts, prefix, value, k) ==
  IF k > Len(map) THEN [threw |-> FALSE, options |-> opts, target_type |-> ""]
  ELSE IF strcmp_eq(map[k].key, prefix)
       THEN LET info == map[k].info
                MemberType == members[info + 1].type
                cast == lexical_cast(MemberType, value, strnlen(value, max_value_length))
            IN  IF cast.ok
                THEN cpp3k_set_from(members, map, [opts EXCEPT ![info + 1] = cast.val],
                                    prefix, value, k + 1)
                ELSE [threw |-> TRUE, options |-> opts, target_type |-> MemberType]
  ELSE cpp3k_set_from(members, map, opts, prefix, value, k + 1)

cpp3k_set(members, map, opts, prefix, value) ==
  cpp3k_set_from(members, map, opts, prefix, value, 1)

\* the argument vectors both implementations are run on
BothArgVectors ==
  LiveArgVectors \cup
    { <<ProgramName, f, v>> : f \in {"--filename", "--file", "-h"}, v \in {"1", "x", LongValue, LongWord} }

InitBoth ==
  /\ decl \in Structs
  /\ argv \in IF decl \in ParsedStructs THEN BothArgVectors ELSE BasicArgVectors
  /\ build = "source"
  /\ prefix_map = <<>>
  /\ pc = "idle"
  /\ i = 0
  /\ options = <<>>
  /\ result = NoResult
  /\ log = <<>>
  /\ call = NoCall
  /\ instance = <<>>
  /\ threads = <<>>
  /\ cpp3k = NoCpp3k
  /\ cmp = NoCompare

\* what the cpp3k build does not touch
Cpp3kFrame == UNCHANGED <<decl, build, prefix_map, argv, pc, i, options, result, log,
                          call, instance, threads, cmp>>

\* the compiler instantiates the cpp3k OptionsMap<OptionsStruct>
Cpp3kBuild ==
  /\ cpp3k.build = "source"
  /\ cpp3k' = [cpp3k EXCEPT
                 !.build = cpp3k_Compile(decl),
                 !.prefix_map = IF cpp3k_Compile(decl) = "ok"
                                THEN cpp3k_prefix_map(decl) ELSE <<>>]
  /\ Cpp3kFrame

\* OptionsStruct options; int i = 1
Cpp3kParseBegin ==
  /\ cpp3k.build = "ok"
  /\ cpp3k.pc = "idle"
  /\ cpp3k' = [cpp3k EXCEPT !.options = DefaultInit(decl), !.i = 1, !.pc = "loop"]
  /\ Cpp3kFrame

\* contains(argv[i]) is false: return nullopt
Cpp3kLoopUnknown ==
  /\ cpp3k.pc = "loop"
  /\ cpp3k.i < argc
  /\ ~cpp3k_contains(cpp3k.prefix_map, Argv(cpp3k.i))
  /\ cpp3k' = [cpp3k EXCEPT !.result = Nullopt, !.pc = "done"]
  /\ Cpp3kFrame

\* the frame of the cpp3k parse after set was handed the value v
Cpp3kAfterSet(v) ==
  LET r == cpp3k_set(decl, cpp3k.prefix_map, cpp3k.options, Argv(cpp3k.i), v) IN
  IF r.threw
  THEN [cpp3k EXCEPT !.result = BadLexicalCast(r.target_type), !.pc = "done"]
  ELSE [cpp3k EXCEPT !.options = r.options, !.i = cpp3k.i + 2]

\* contains(argv[i]) is true and argv[i + 1] is an entry of argv
Cpp3kLoopSet ==
  /\ cpp3k.pc = "loop"
  /\ cpp3k.i < argc
  /\ cpp3k_contains(cpp3k.prefix_map, Argv(cpp3k.i))
  /\ cpp3k.i + 1 < argc
  /\ cpp3k' = Cpp3kAfterSet(Argv(cpp3k.i + 1))
  /\ Cpp3kFrame

\* contains(argv[i]) is true and i + 1 = argc: the read through argv[argc]
Cpp3kLoopSetPastEnd ==
  /\ cpp3k.pc = "loop"
  /\ cpp3k.i < argc
  /\ cpp3k_contains(cpp3k.prefix_map, Argv(cpp3k.i))
  /\ cpp3k.i + 1 >= argc
  /\ \/ cpp3k' = [cpp3k EXCEPT !.result = Crash, !.pc = "done"]
     \/ \E garbage \in Tokens : cpp3k' = Cpp3kAfterSet(garbage)
  /\ Cpp3kFrame

\* the loop is over: return options
Cpp3kParseReturn ==
  /\ cpp3k.pc = "loop"
  /\ cpp3k.i >= argc
  /\ cpp3k' = [cpp3k EXCEPT !.result = Value(cpp3k.options), !.pc = "done"]
  /\ Cpp3kFrame

NextBoth ==
  \/ Next
  \/ Cpp3kBuild \/ Cpp3kParseBegin \/ Cpp3kLoopUnknown \/ Cpp3kLoopSet
  \/ Cpp3kLoopSetPastEnd \/ Cpp3kParseReturn

SpecBoth == InitBoth /\ [][NextBoth]_vars

(***************************************************************************)
(* reflcompare::equal.  A type is a scalar with an operator== (int,        *)
(* double, std::string), a record with data members, or a type that is     *)
(* neither (OtherT).  A value is written [s, ms]: s is the content of a   *)
(* scalar, ms the values of the data members of a record.                  *)
(***************************************************************************)
Scalar(kind) == [kind |-> kind, members |-> <<>>]

Record(Ms) == [kind |-> "record", members |-> Ms]

IntT    == Scalar("int")
DoubleT == Scalar("double")
StringT == Scalar("string")
OtherT  == Scalar("other")

PointT  == Record(<<IntT, IntT>>)
SampleT == Record(<<DoubleT, StringT>>)
EmptyT  == Record(<<>>)
NestedT == Record(<<PointT, SampleT>>)
BadT    == Record(<<IntT, OtherT>>)

CompareTypes == {IntT, DoubleT, StringT, OtherT, PointT, SampleT, EmptyT, NestedT, BadT}

\* a double that is not a number compares unequal to everything
NaN == "NaN"

ScalarValue(x) == [s |-> x, ms |-> <<>>]

RecordValue(vs) == [s |-> "", ms |-> vs]

RECURSIVE ValuesOf(_)
RECURSIVE TuplesOf(_)
ValuesOf(T) ==
  CASE T.kind = "int" -> {ScalarValue("0"), ScalarValue("1")}
    [] T.kind = "double" -> {ScalarValue("0"), ScalarValue(NaN)}
    [] T.kind = "string" -> {ScalarValue(""), ScalarValue("x")}
    [] T.kind = "other" -> {ScalarValue("u")}
    [] OTHER -> { RecordValue(vs) : vs \in TuplesOf(T.members) }

TuplesOf(Ms) ==
  IF Ms = <<>> THEN {<<>>}
  ELSE { <<v>> \o rest : v \in ValuesOf(Head(Ms)), rest \in TuplesOf(Tail(Ms)) }

\* metap::is_detected<metap::equality_comparable, T>
equality_comparable(T) == T.kind \in {"int", "double", "string"}

\* a == b of the type
operator_eq(T, a, b) == IF T.kind = "double" THEN a = b /\ a.s # NaN ELSE a = b

\* the fold with || in the place of &&
RECURSIVE compare_fold_or(_, _, _, _)
RECURSIVE compare_fold(_, _, _, _)
RECURSIVE equal(_, _, _)
compare_fold_or(MetaMembers, a, b, k) ==
  IF k > Len(MetaMembers) THEN FALSE
  ELSE equal(MetaMembers[k], a.ms[k], b.ms[k]) \/ compare_fold_or(MetaMembers, a, b, k + 1)

\* (equal(a.*pointer, b.*pointer) && ...) over the data members from k on
compare_fold(MetaMembers, a, b, k) ==
  IF k > Len(MetaMembers) THEN TRUE
  ELSE equal(MetaMembers[k], a.ms[k], b.ms[k]) /\ compare_fold(MetaMembers, a, b, k + 1)

equal(T, a, b) ==
  IF equality_comparable(T) THEN operator_eq(T, a, b)
  ELSE compare_fold(T.members, a, b, 1)

\* equal<T> is instantiated for T and for the type of every data member down
\* from it: a type that has no operator== has to be a record
RECURSIVE equal_compiles(_)
equal_compiles(T) ==
  IF equality_comparable(T) THEN TRUE
  ELSE IF T.kind # "record" THEN FALSE
  ELSE \A k \in 1..Len(T.members) : equal_compiles(T.members[k])

InitCompare ==
  /\ decl = ProgramOptions
  /\ argv = <<ProgramName>>
  /\ build = "source"
  /\ prefix_map = <<>>
  /\ pc = "idle"
  /\ i = 0
  /\ options = <<>>
  /\ result = NoResult
  /\ log = <<>>
  /\ call = NoCall
  /\ instance = <<>>
  /\ threads = <<>>
  /\ cpp3k = NoCpp3k
  /\ cmp \in UNION { { [T |-> T, a |-> a, b |-> b, build |-> "source", pc |-> "idle",
                         ret |-> FALSE] : a, b \in ValuesOf(T) } : T \in CompareTypes }

\* what a comparison does not touch
CompareFrame == UNCHANGED <<decl, build, prefix_map, argv, pc, i, options, result, log,
                            call, instance, threads, cpp3k>>

\* the compiler instantiates equal<T>
CompareBuild ==
  /\ cmp.build = "source"
  /\ cmp' = [cmp EXCEPT !.build = IF equal_compiles(cmp.T) THEN "ok" ELSE "static_assert"]
  /\ CompareFrame

\* reflcompare::equal(a, b)
CallEqual ==
  /\ cmp.build = "ok"
  /\ cmp.pc = "idle"
  /\ cmp' = [cmp EXCEPT !.ret = equal(cmp.T, cmp.a, cmp.b), !.pc = "done"]
  /\ CompareFrame

NextCompare == CompareBuild \/ CallEqual

SpecCompare == InitCompare /\ [][NextCompare]_vars

(***************************************************************************)
(* The vocabulary of the specification, read off the declaration and the   *)
(* argument vector and not off prefix_map: the flags a struct declares,    *)
(* the data member a flag selects, the pairs of the argument list.         *)
(***************************************************************************)
OptionFields(d) == { k \in 1..Len(d) : d[k].type = "Option" }

FlagsOf(d, k) ==
  {d[k].flag} \cup (IF d[k].short_flag = "" THEN {} ELSE {d[k].short_flag})

DeclaredFlags(d) == UNION { FlagsOf(d, k) : k \in OptionFields(d) }

\* no flag string is declared by two options
DisjointFlags(d) ==
  \A a, b \in OptionFields(d) : a # b => FlagsOf(d, a) \cap FlagsOf(d, b) = {}

\* the first option of the struct that declares the flag
DeclaringOption(d, flag) ==
  CHOOSE k \in OptionFields(d) :
    /\ flag \in FlagsOf(d, k)
    /\ \A m \in OptionFields(d) : flag \in FlagsOf(d, m) => k <= m

\* the position in the struct of the data member that option is declared with
FieldOf(d, flag) ==
  CHOOSE m \in 1..Len(d) :
    d[m].type # "Option" /\ d[m].name = d[DeclaringOption(d, flag)].identifier

TypeOf(flag) == decl[FieldOf(decl, flag)].type

\* the metainfo the map holds for a key
Lookup(map, f) == map[CHOOSE k \in 1..Len(map) : map[k].key = f].info

\* the position in the struct of the data member the registry maps a key to,
\* and the type of that member
MappedMember(f) == Lookup(prefix_map, f) + 1

MappedType(f) == decl[MappedMember(f)].type

\* the indices of argv at which a flag stands: 1, 3, 5, ...
FlagPositions == { k \in 1..(argc - 1) : k % 2 = 1 }

\* the flag at k has a value after it
PairComplete(k) == k + 1 < argc

Registered(k) == Argv(k) \in DeclaredFlags(decl)

\* no later pair selects the data member the pair at k selects
LastFor(k) ==
  \A j \in FlagPositions :
    (j > k /\ Registered(j)) => FieldOf(decl, Argv(j)) # FieldOf(decl, Argv(k))

\* the coercion of a whole string to a member type
Coerces(T, v) == lexical_cast(T, v, Len(v)).ok

Coerced(T, v) == lexical_cast(T, v, Len(v)).val

\* the first max_value_length characters of a value
Truncated(v) == SubSeq(v, 1, Min(Len(v), max_value_length))

\* every token after the program name is part of a pair of a registered flag
\* and a value that coerces to the type of its field
AllPairsValid ==
  \A k \in FlagPositions :
    PairComplete(k) /\ Registered(k) /\ Coerces(TypeOf(Argv(k)), Argv(k + 1))

\* the failure outcomes of the specification
UnknownFlag == Nullopt

MissingValue(flag) == [kind |-> "missing_value", options |-> <<>>, flag |-> flag]

CoercionError(field, value) ==
  [kind |-> "coercion_error", options |-> <<>>, field |-> field, value |-> value]

(***************************************************************************)
(* The claims.                                                             *)
(***************************************************************************)

\* C1: for every struct and every argument list of complete pairs of
\* registered flags and values that coerce to the type of their field, parse
\* returns an instance in which every field a flag of the input selects
\* equals the coercion of the (last) value paired with it.
C1_AsStated ==
  (pc = "done" /\ AllPairsValid)
    => /\ result.kind = "value"
       /\ \A k \in FlagPositions :
            LastFor(k) => result.options[FieldOf(decl, Argv(k))]
                            = Coerced(TypeOf(Argv(k)), Argv(k + 1))

\* C2: an argument list with a flag-position token that is not in the
\* registry makes parse fail with UnknownFlag, and no instance is returned.
C2_AsStated ==
  (pc = "done" /\ \E k \in FlagPositions : ~Registered(k)) => result = UnknownFlag

\* C3: an argument list of odd length makes parse fail with MissingValue for
\* the trailing flag, and no instance is returned.  Stated for the lists in
\* which nothing else can fail first, such as ["--filename"]: the trailing
\* flag is registered and every pair before it is valid.
C3_MissingValue ==
  ( /\ pc = "done" /\ argc >= 2 /\ (argc - 1) % 2 = 1
    /\ Registered(argc - 1)
    /\ \A k \in FlagPositions :
         k < argc - 1 => (Registered(k) /\ Coerces(TypeOf(Argv(k)), Argv(k + 1))) )
    => result = MissingValue(Argv(argc - 1))

\* C4: when the first pair that is not valid has a registered flag and a value
\* that does not coerce to the field's type, parse fails with a CoercionError
\* that names the field and the raw value.
C4_CoercionError ==
  \A k \in FlagPositions :
    ( /\ pc = "done"
      /\ PairComplete(k) /\ Registered(k)
      /\ ~Coerces(TypeOf(Argv(k)), Argv(k + 1))
      /\ \A j \in FlagPositions :
           j < k => (Registered(j) /\ Coerces(TypeOf(Argv(j)), Argv(j + 1))) )
    => result = CoercionError(decl[FieldOf(decl, Argv(k))].name, Argv(k + 1))

\* C5: no OptionsMap is built, and none is used by parse, for a struct in
\* which two options declare the same flag string.
C5_DuplicateFlagRejected ==
  (build = "ok" \/ pc # "idle") => DisjointFlags(decl)

\* C6: a struct without option fields fails the static assertion, a struct
\* with an option field passes it, and parse never runs on an empty registry.
C6_EmptySchemaRejected ==
  /\ build # "source" => (build = "static_assert" <=> OptionFields(decl) = {})
  /\ pc # "idle" => (OptionFields(decl) # {} /\ prefix_map # <<>>)

\* C6 witness: the struct that holds one plain data member and no option has
\* failed the static assertion.
C6_Witness == decl = PlainVerbose /\ build = "static_assert" /\ pc = "idle"

\* the flag positions at which flag f stands
Carrying(f) == { k \in FlagPositions : Argv(k) = f }

\* a flag that stands at two flag positions or more
RepeatedFlags == { f \in DeclaredFlags(decl) : Cardinality(Carrying(f)) >= 2 }

Last(S) == CHOOSE k \in S : \A j \in S : j <= k

\* C7: when a registered flag stands in two or more pairs of a valid argument
\* list, parse succeeds and the field of the flag holds the coerced value of
\* the last pair carrying that flag.
C7_AsStated ==
  (pc = "done" /\ AllPairsValid /\ RepeatedFlags # {})
    => /\ result.kind = "value"
       /\ \A f \in RepeatedFlags :
            result.options[FieldOf(decl, f)]
              = Coerced(TypeOf(f), Argv(Last(Carrying(f)) + 1))

\* a pair that makes parse fail: its flag is not registered, or the first
\* 128 characters of its value do not coerce to the type of the member the
\* registry maps the flag to
Faulty(k) ==
  \/ ~Registered(k)
  \/ PairComplete(k) /\ ~Coerces(MappedType(Argv(k)), Truncated(Argv(k + 1)))

\* C8: a parse that fails at some pair hands the caller no instance, whatever
\* earlier pairs wrote; an instance that is returned is the local one after
\* the loop went through argv, every flag registered and every value coerced.
C8_NoPartialInstance ==
  /\ (pc = "done" /\ \E k \in FlagPositions : Faulty(k))
       => (result.kind # "value" /\ result.options = <<>>)
  /\ result.kind = "value"
       => (i >= argc /\ result.options = options
           /\ \A k \in FlagPositions : ~Faulty(k))

\* C8 witness: parse has failed at the second pair after the first pair wrote
\* a field of the local instance.
C8_Witness ==
  /\ pc = "done" /\ i = 3 /\ 3 \in FlagPositions /\ Faulty(3)
  /\ options # DefaultInit(decl)
  /\ result.kind \in {"nullopt", "bad_lexical_cast"}

\* C9: parse ends in no other way than returning to its caller the populated
\* struct or the failure value.
C9_FailureReturned ==
  pc = "done" => result.kind \in {"value", "nullopt"}

\* C10, as stated: parse never succeeds after a pair of a registered flag and
\* a value of more than max_value_length characters.
C10_AsStated ==
  ( /\ pc = "done"
    /\ \E k \in FlagPositions :
         PairComplete(k) /\ Registered(k) /\ Len(Argv(k + 1)) > max_value_length )
    => result.kind # "value"

\* the pairs of a registered flag and a value of more than max_value_length
\* characters
LongPairs ==
  { k \in FlagPositions :
      PairComplete(k) /\ Registered(k) /\ Len(Argv(k + 1)) > max_value_length }

\* C10, amended: of a value of more than max_value_length characters set
\* reads the first max_value_length only.  The value is not rejected for
\* its length: the member the registry maps the flag to is written with the
\* coercion of those characters to the type of that member, and parse fails
\* at that pair exactly when they do not coerce to it.
C10_ValueTruncated ==
  \A k \in LongPairs :
    LET head == SubSeq(Argv(k + 1), 1, max_value_length) IN
    /\ (pc \in {"loop", "done"} /\ i > k) => Coerces(MappedType(Argv(k)), head)
    /\ (pc = "loop" /\ i = k + 2) =>
         options[MappedMember(Argv(k))] = Coerced(MappedType(Argv(k)), head)
    /\ (pc = "done" /\ i = k) =>
         (result.kind = "bad_lexical_cast" /\ ~Coerces(MappedType(Argv(k)), head))

\* C10 witness: parse has failed at a second pair whose value of 129
\* characters begins with a letter, after the first pair wrote the integer 0
\* from a value of 129 characters that is no number as a whole.
C10_Witness ==
  /\ pc = "done" /\ i = 3 /\ argc = 5
  /\ LongPairs = {1, 3}
  /\ MappedType(Argv(1)) = "int" /\ MappedType(Argv(3)) = "int"
  /\ ~Coerces("int", Argv(2))
  /\ options[MappedMember(Argv(1))] = IntVal(0)
  /\ ~Coerces("int", SubSeq(Argv(4), 1, max_value_length))
  /\ result.kind = "bad_lexical_cast"

(***************************************************************************)
(* C11.  Once the token at a flag position is found not to be a key of     *)
(* the registry, parse is over with nullopt: that lookup is the last       *)
(* thing parse did, no entry of argv behind the token was looked up,       *)
(* handed to set or written, and the instance holds what the pairs in      *)
(* front of the token wrote, whatever the entries behind it are.           *)
(***************************************************************************)
\* the options the pairs in front of flag position k leave behind
RECURSIVE WrittenBefore(_)
WrittenBefore(k) ==
  IF k <= 1 THEN DefaultInit(decl)
  ELSE set(decl, prefix_map, WrittenBefore(k - 2), Argv(k - 2), Argv(k - 1)).options

C11_FailsImmediately ==
  \A n \in 1..Len(log) :
    (log[n].op = "contains" /\ ~log[n].found) =>
      /\ n = Len(log)
      /\ pc = "done"
      /\ result = Nullopt
      /\ i = log[n].flag
      /\ \A m \in 1..Len(log) : log[m].flag <= i /\ log[m].value < i
      /\ options = WrittenBefore(i)

\* an unknown flag in front of a pair that would have parsed
C11_Witness ==
  /\ pc = "done"
  /\ result = Nullopt
  /\ decl = ProgramOptions
  /\ argc = 5
  /\ i = 1
  /\ Argv(3) = "-i"
  /\ Argv(4) = "1"

(***************************************************************************)
(* C12.  parse takes the entries after the program name in pairs that do   *)
(* not overlap: the entries looked up as flags are argv[1], argv[3], ...   *)
(* in this order and nothing else, the value handed to set with the flag   *)
(* argv[k] is argv[k + 1], and no entry at a value position is looked up.  *)
(* A value that is itself a registered flag string is coerced and stored   *)
(* in the member the registry maps the flag in front of it to, like any    *)
(* other value.                                                            *)
(***************************************************************************)
\* the number of lookups logged in front of entry n
LookupsBefore(n) == Cardinality({ m \in 1..(n - 1) : log[m].op = "contains" })

C12_Pairs ==
  /\ \A n \in 1..Len(log) :
       /\ log[n].flag % 2 = 1
       /\ log[n].op = "contains" =>
            (log[n].value = -1 /\ log[n].flag = 2 * LookupsBefore(n) + 1)
       /\ log[n].op = "set" =>
            (log[n].value = log[n].flag + 1 /\ log[n].flag = 2 * LookupsBefore(n) - 1)
  /\ (pc = "loop" /\ i >= 3 /\ i - 1 < argc) =>
       options[MappedMember(Argv(i - 2))]
         = Coerced(MappedType(Argv(i - 2)), Truncated(Argv(i - 1)))

\* "--filename -i": the file name is "-i" and iterations was never written
C12_Witness ==
  /\ pc = "done"
  /\ decl = ProgramOptions
  /\ argv = <<ProgramName, "--filename", "-i">>
  /\ result = Value(options)
  /\ options[2] = StrVal("-i")
  /\ options[4] = Indeterminate

(***************************************************************************)
(* C13.  In the instance a successful parse returns, every member that no  *)
(* flag of the input selects holds what it held in the default-initialised *)
(* instance parse started from (for an int or a bool member that is the    *)
(* unwritten, indeterminate content).  With the struct of filename,        *)
(* iterations and help, "--filename x -i 1" gives filename = "x",          *)
(* iterations = 1 and help untouched.                                      *)
(***************************************************************************)
\* some flag of the input selects the member at position m of the struct
Selected(m) ==
  \E k \in FlagPositions : Registered(k) /\ FieldOf(decl, Argv(k)) = m

C13_UnselectedKeepDefault ==
  result.kind = "value" =>
    \A m \in 1..Len(decl) :
      ~Selected(m) => result.options[m] = DefaultInit(decl)[m]

(***************************************************************************)
(* C14.  For every option of the struct that declares a short flag, the    *)
(* short flag and the primary flag select the same member: set with the    *)
(* short flag and a value leaves the instance, and leaves the call, as     *)
(* set with the primary flag and that value does.                          *)
(***************************************************************************)
\* the position in the struct of the data member of the option at k
MemberOf(d, k) ==
  CHOOSE m \in 1..Len(d) : d[m].type # "Option" /\ d[m].name = d[k].identifier

C14_ShortAliasesPrimary ==
  build = "ok" =>
    \A k \in OptionFields(decl) :
      decl[k].short_flag # "" =>
        /\ \A v \in CallValues :
             set(decl, prefix_map, instance, decl[k].short_flag, v)
               = set(decl, prefix_map, instance, decl[k].flag, v)
        /\ (call.op = "set" /\ ~call.ret /\ call.prefix \in FlagsOf(decl, k)) =>
             instance[MemberOf(decl, k)]
               = Coerced(decl[MemberOf(decl, k)].type, Truncated(call.value))

(***************************************************************************)
(* C15.  contains(s) returns true exactly when s is, character for         *)
(* character and over its full length, one of the keys of the registry:    *)
(* it is false for every other string, a proper prefix of a key and a key  *)
(* with characters after it included.  The call changes nothing but the    *)
(* caller's knowledge of what it returned.                                 *)
(***************************************************************************)
KeySet(map) == { map[k].key : k \in 1..Len(map) }

C15_ContainsExact ==
  /\ [](call.op = "contains" => (call.ret <=> call.prefix \in KeySet(prefix_map)))
  /\ [][(call'.op = "contains" /\ call' # call) =>
          UNCHANGED <<decl, build, prefix_map, argv, pc, i, options, result, log,
                      instance, threads, cpp3k, cmp>>]_vars

\* a proper prefix of a key, and a key with a tail, are not found
C15_Witness ==
  /\ call.op = "contains"
  /\ call.prefix \in {"--file", "--filenames"}
  /\ "--filename" \in KeySet(prefix_map)
  /\ ~call.ret
  /\ instance # DefaultInit(decl)

(***************************************************************************)
(* C16.  The keys of the registry are exactly the primary flags and the    *)
(* non-empty short flags of the options of the struct: a plain data        *)
(* member adds no key, an option without short flag adds its primary flag  *)
(* only, and the empty string is no key.                                   *)
(***************************************************************************)
C16_KeysAreDeclaredFlags ==
  build = "ok" =>
    /\ KeySet(prefix_map) = DeclaredFlags(decl)
    /\ "" \notin KeySet(prefix_map)
    /\ \A k \in 1..Len(decl) :
         decl[k].type # "Option" => decl[k].name \notin KeySet(prefix_map)

\* a plain member, an option without short flag and one with a short flag
C16_Witness ==
  /\ build = "ok"
  /\ decl = PlainVerbose \o OptFilename \o OptIterations
  /\ KeySet(prefix_map) = {"--filename", "--iterations", "-i"}

(***************************************************************************)
(* C17.  Every failure outcome of parse carries the offending   *)
(* token and its position in the argument list, so that the caller can     *)
(* tell which entry made parse fail.                                       *)
(***************************************************************************)
C17_AsStated ==
  (pc = "done" /\ result.kind # "value") =>
    /\ {"token", "position"} \subseteq DOMAIN result
    /\ result.token = Argv(i)
    /\ result.position = i

(***************************************************************************)
(* C18.  In a run of parse, set is called for a flag only after contains   *)
(* returned true for that flag in the same iteration of the loop: the      *)
(* entry logged in front of every set is the successful lookup of the      *)
(* same argv entry, and that entry is a declared flag of the struct.       *)
(***************************************************************************)
C18_SetAfterContains ==
  \A n \in 1..Len(log) :
    log[n].op = "set" =>
      /\ n > 1
      /\ log[n - 1].op = "contains"
      /\ log[n - 1].flag = log[n].flag
      /\ log[n - 1].found
      /\ Argv(log[n].flag) \in DeclaredFlags(decl)

\* set was called for the first pair and not for the second, whose flag is
\* not registered
C18_Witness ==
  /\ pc = "done"
  /\ Len(log) = 3
  /\ log[2].op = "set"
  /\ log[2].flag = 1
  /\ log[3].flag = 3
  /\ ~log[3].found

(***************************************************************************)
(* C19.  A run of parse is in Scanning until it ends, takes one step for   *)
(* every pair, and ends in one of four terminal states: Succeeded (an      *)
(* instance), Failed(UnknownFlag), Failed(MissingValue) for a flag with    *)
(* no value after it, or Failed(CoercionError), for which the              *)
(* bad_lexical_cast of the code is taken here.  A run that has ended       *)
(* keeps its outcome.                                                      *)
(***************************************************************************)
\* the number of pairs set was called for
PairsTaken == Cardinality({ n \in 1..Len(log) : log[n].op = "set" })

\* the last flag stands without a value, and every pair in front of it is valid
TrailingFlag ==
  /\ argc >= 2
  /\ argc % 2 = 0
  /\ \A k \in FlagPositions :
       /\ Registered(k)
       /\ PairComplete(k) => Coerces(TypeOf(Argv(k)), Truncated(Argv(k + 1)))

C19_StateMachine ==
  /\ pc = "idle" => (result = NoResult /\ log = <<>>)
  /\ pc = "loop" => (result = NoResult /\ i = 2 * PairsTaken + 1)
  /\ pc = "done" =>
       /\ result.kind \in {"value", "nullopt", "missing_value", "bad_lexical_cast"}
       /\ TrailingFlag => result.kind = "missing_value"
       /\ ~ENABLED Next

(***************************************************************************)
(* C20.  The registry is not changed after it was built: whatever calls    *)
(* of contains, set and parse were made, and however they ended, the map   *)
(* is the one built from the declaration of the struct, and its keys are   *)
(* the declared flags.                                                     *)
(***************************************************************************)
C20_RegistryFrozen ==
  build = "ok" =>
    /\ prefix_map = make_prefix_map(decl)
    /\ KeySet(prefix_map) = DeclaredFlags(decl)

\* the caller has written through set, parse has failed, and contains was
\* called after it
C20_Witness ==
  /\ build = "ok"
  /\ pc = "done"
  /\ result.kind = "nullopt"
  /\ instance # DefaultInit(decl)
  /\ call.op = "contains"
  /\ call.ret

(***************************************************************************)
(* C21.  Calls of parse that run at the same time share nothing they       *)
(* write: under every interleaving of their steps, a call that has ended   *)
(* has an outcome, and an instance, that the same call has when it runs    *)
(* alone on its arguments, and a call in its loop holds the instance the   *)
(* pairs it went through leave behind when it runs alone.                  *)
(***************************************************************************)
\* the outcomes of parse run alone on a from index k on, options being opts
RECURSIVE Alone(_, _, _)
Alone(a, k, opts) ==
  IF k >= Len(a) THEN {Value(opts)}
  ELSE IF a[k + 1] \notin DeclaredFlags(decl) THEN {[kind |-> "nullopt", options |-> <<>>]}
  ELSE LET Step(v) ==
             LET r == set(decl, make_prefix_map(decl), opts, a[k + 1], v) IN
             IF r.threw THEN {BadLexicalCast(r.target_type)}
             ELSE Alone(a, k + 2, r.options)
       IN  IF k + 1 < Len(a) THEN Step(a[k + 2])
           ELSE {Crash} \cup UNION { Step(garbage) : garbage \in Tokens }

\* the instances parse run alone holds when its index is k
RECURSIVE AloneAt(_, _)
AloneAt(a, k) ==
  IF k <= 1 THEN {DefaultInit(decl)}
  ELSE LET Values == IF k - 1 < Len(a) THEN {a[k]} ELSE Tokens IN
       { set(decl, make_prefix_map(decl), o, a[k - 1], v).options :
           o \in AloneAt(a, k - 2), v \in Values }

C21_ParsesIndependent ==
  \A t \in DOMAIN threads :
    /\ threads[t].pc = "done" =>
         threads[t].result \in Alone(threads[t].argv, 1, DefaultInit(decl))
    /\ threads[t].pc = "loop" =>
         threads[t].options \in AloneAt(threads[t].argv, threads[t].i)

\* one call has returned its instance while the other, which had written
\* its own, failed
C21_Witness ==
  /\ decl = ProgramOptions
  /\ threads[1].pc = "done"
  /\ threads[2].pc = "done"
  /\ threads[1].argv = <<ProgramName, "--filename", "x", "-i", "1">>
  /\ threads[1].result.kind = "value"
  /\ threads[1].result.options[4] = IntVal(1)
  /\ threads[2].argv = <<ProgramName, "-i", "x">>
  /\ threads[2].result.kind = "bad_lexical_cast"

(***************************************************************************)
(* C22.  Whatever the other members of the struct are called, every flag   *)
(* of an option is mapped to the data member of that option, the member    *)
(* whose name is the identifier of the option: the index the fold over     *)
(* the member names gives is the index of that member, and set writes the  *)
(* value there, coerced to the type of that member.                        *)
(***************************************************************************)
C22_FlagMapsToOwnMember ==
  build = "ok" =>
    \A k \in OptionFields(decl) :
      /\ get_metainfo_for(decl, decl[k].identifier) + 1 = MemberOf(decl, k)
      /\ \A f \in FlagsOf(decl, k) :
           DeclaringOption(decl, f) = k =>
             /\ Lookup(prefix_map, f) + 1 = MemberOf(decl, k)
             /\ \A v \in CallValues :
                  Coerces(decl[MemberOf(decl, k)].type, v) =>
                    set(decl, prefix_map, DefaultInit(decl), f, v).options
                      = [DefaultInit(decl) EXCEPT ![MemberOf(decl, k)] =
                           Coerced(decl[MemberOf(decl, k)].type, v)]

(***************************************************************************)
(* C23.  Every index at which a run of parse reads argv is below argc:     *)
(* the flag is read at i < argc, and the value at i + 1 is read only when  *)
(* i + 1 < argc.                                                           *)
(***************************************************************************)
C23_ReadsBelowArgc ==
  \A n \in 1..Len(log) :
    /\ log[n].flag < argc
    /\ log[n].op = "set" => log[n].value < argc

(***************************************************************************)
(* C24.  A run of parse over n tokens ends, and it ends after at most      *)
(* ceil(n / 2) iterations of its loop: the index goes up by 2 with every   *)
(* iteration that does not end the run, and no flag position is looked up  *)
(* twice.  (n = argc - 1, so that ceil(n / 2) is argc divided by 2.)        *)
(***************************************************************************)
\* the entries of the log that are lookups: one for every iteration
Iterations == { n \in 1..Len(log) : log[n].op = "contains" }

C24_Terminates ==
  /\ [](/\ Cardinality(Iterations) <= argc \div 2
        /\ \A n, m \in Iterations : n < m => log[n].flag < log[m].flag)
  /\ [][(pc = "loop" /\ pc' = "loop") => i' = i + 2]_vars
  /\ (pc = "loop") ~> (pc = "done")

\* a run over four tokens has ended after two iterations
C24_Witness ==
  /\ pc = "done"
  /\ argc = 5
  /\ Cardinality(Iterations) = 2
  /\ result.kind = "value"

(***************************************************************************)
(* C25.  When the argument list holds several faulty pairs,                *)
(* the first of them in input order decides the outcome alone: an          *)
(* unknown-flag failure when its flag is not registered, a coercion        *)
(* failure when its flag is registered and its value does not coerce,      *)
(* whatever the later pairs hold.                                          *)
(***************************************************************************)
First(S) == CHOOSE k \in S : \A j \in S : k <= j

\* the pair at k is faulty, the value being taken whole
FaultyWhole(k) ==
  \/ ~Registered(k)
  \/ PairComplete(k) /\ ~Coerces(TypeOf(Argv(k)), Argv(k + 1))

C25_AsStated ==
  LET F == { k \in FlagPositions : FaultyWhole(k) } IN
  (pc = "done" /\ Cardinality(F) >= 2) =>
    IF ~Registered(First(F)) THEN result.kind = "nullopt"
    ELSE result.kind = "bad_lexical_cast"

(***************************************************************************)
(* C26.  With no token after the program name (argc <= 1) parse looks      *)
(* nothing up, writes nothing, and returns the default-initialised         *)
(* instance.                                                               *)
(***************************************************************************)
C26_NoTokens ==
  argc <= 1 =>
    /\ log = <<>>
    /\ pc = "loop" => options = DefaultInit(decl)
    /\ pc = "done" => result = Value(DefaultInit(decl))

C26_Witness ==
  /\ pc = "done"
  /\ argc = 1
  /\ decl = ProgramOptions
  /\ result.kind = "value"
  /\ result.options[2] = StrVal("")

(***************************************************************************)
(* C27.  OptionsMap::set called by hand with a string that is no key of    *)
(* the registry leaves every member of the instance as it was and throws   *)
(* nothing; called with a registered flag it changes no member but the     *)
(* one the flag maps to, which takes the coerced value when the call       *)
(* returns.                                                                *)
(***************************************************************************)
C27_SetFrame ==
  [][(call'.op = "set" /\ <<call, instance>>' # <<call, instance>>) =>
       IF call'.prefix \notin DeclaredFlags(decl)
       THEN instance' = instance /\ ~call'.ret
       ELSE /\ \A m \in 1..Len(decl) :
                 m # MappedMember(call'.prefix) => instance'[m] = instance[m]
            /\ ~call'.ret =>
                 instance'[MappedMember(call'.prefix)]
                   = Coerced(MappedType(call'.prefix), Truncated(call'.value))]_vars

\* set with "--file", which ProgramOptions does not declare, after a call
\* that wrote the file name
C27_Witness ==
  /\ decl = ProgramOptions
  /\ call.op = "set"
  /\ call.prefix = "--file"
  /\ ~call.ret
  /\ instance[2] = StrVal("x")
  /\ instance[4] = Indeterminate

(***************************************************************************)
(* C28.  The reflexpr and the cpp3k implementation cannot be told apart:   *)
(* for the same struct both compile or both fail in the same way and       *)
(* build the same map from flags to members, and for the same arguments    *)
(* contains, set and parse give the same outcome and the same members.     *)
(* (Where parse reads through argv[argc] the outcome is not determined by  *)
(* the arguments; there the outcome of the one is an outcome of the        *)
(* other.)                                                                 *)
(***************************************************************************)
\* the last entry of argv is a declared flag without a value
TrailingDeclaredFlag ==
  argc >= 2 /\ argc % 2 = 0 /\ Argv(argc - 1) \in DeclaredFlags(decl)

C28_Equivalent ==
  /\ (build # "source" /\ cpp3k.build # "source") =>
       (cpp3k.build = build /\ cpp3k.prefix_map = prefix_map)
  /\ (build = "ok" /\ cpp3k.build = "ok") =>
       /\ \A s \in ProbeStrings :
            cpp3k_contains(cpp3k.prefix_map, s) = contains(prefix_map, s)
       /\ \A f \in CallFlags : \A v \in CallValues :
            cpp3k_set(decl, cpp3k.prefix_map, DefaultInit(decl), f, v)
              = set(decl, prefix_map, DefaultInit(decl), f, v)
  /\ (pc = "loop" /\ cpp3k.pc = "loop" /\ cpp3k.i = i /\ i <= argc) =>
       cpp3k.options = options
  /\ (pc = "done" /\ cpp3k.pc = "done" /\ ~TrailingDeclaredFlag) =>
       cpp3k.result = result
  /\ cpp3k.pc = "done" => cpp3k.result \in Alone(argv, 1, DefaultInit(decl))

\* both have parsed "-i 1" into the same instance
C28_Witness ==
  /\ decl = ProgramOptions
  /\ argv = <<ProgramName, "-i", "1">>
  /\ pc = "done"
  /\ cpp3k.pc = "done"
  /\ result.kind = "value"
  /\ cpp3k.result = result
  /\ cpp3k.result.options[4] = IntVal(1)

(***************************************************************************)
(* C29.  As stated: equal(a, b) is a == b for a type with an operator==,   *)
(* and for a record it is true exactly when equal is true of every pair    *)
(* of corresponding data members; so it is reflexive and symmetric over    *)
(* records built from members that have an operator==.                     *)
(***************************************************************************)
\* equality member by member, in the words of the claim
RECURSIVE Memberwise(_, _, _)
Memberwise(T, a, b) ==
  IF T.kind # "record" THEN operator_eq(T, a, b)
  ELSE \A k \in 1..Len(T.members) : Memberwise(T.members[k], a.ms[k], b.ms[k])

C29_AsStated ==
  cmp.pc = "done" =>
    /\ cmp.ret <=> Memberwise(cmp.T, cmp.a, cmp.b)
    /\ cmp.ret <=> equal(cmp.T, cmp.b, cmp.a)
    /\ cmp.a = cmp.b => cmp.ret

\* no double of the value is NaN
RECURSIVE NoNaN(_, _)
NoNaN(T, a) ==
  IF T.kind # "record" THEN a.s # NaN
  ELSE \A k \in 1..Len(T.members) : NoNaN(T.members[k], a.ms[k])

\* C29, amended: equal(a, b) is a == b for a type with an operator==, and
\* for a record it is true exactly when equal is true of every pair of
\* corresponding data members.  It is symmetric, and it is reflexive on the
\* values in which every scalar is equal to itself: a record that holds a
\* double that is not a number is not equal to itself.
C29_EqualMemberwise ==
  cmp.pc = "done" =>
    /\ cmp.ret <=> Memberwise(cmp.T, cmp.a, cmp.b)
    /\ cmp.ret <=> equal(cmp.T, cmp.b, cmp.a)
    /\ (cmp.a = cmp.b /\ NoNaN(cmp.T, cmp.a)) => cmp.ret
    /\ (cmp.a = cmp.b /\ ~NoNaN(cmp.T, cmp.a)) => ~cmp.ret

\* two records of records that differ in one member of one member
C29_Witness ==
  /\ cmp.pc = "done"
  /\ cmp.T = NestedT
  /\ cmp.a.ms[1] = cmp.b.ms[1]
  /\ cmp.a.ms[2].ms[1] = ScalarValue("0")
  /\ cmp.b.ms[2].ms[1] = ScalarValue("0")
  /\ cmp.a.ms[2].ms[2] = ScalarValue("x")
  /\ cmp.b.ms[2].ms[2] = ScalarValue("")
  /\ ~cmp.ret
====
